---------------------------- MODULE Spec2Model ----------------------------
(***************************************************************************)
(* Model of src/validation_demo.py: QuantumSystemHRVDetector.              *)
(*                                                                         *)
(* Numbers.  Python floats are modelled as fixed-point integers:           *)
(*   - frequencies in mHz                         (0.67 Hz   = 670)        *)
(*   - spectral power in units of 1e-10           (the 1e-10 floor = 1)    *)
(*   - dimensionless scores in thousandths        (0.7       = 700)        *)
(*   - the error reduction in millionths          (0.18      = 180000)     *)
(*   - error rates of apply_synchronization in millionths                  *)
(* Quotients are floor quotients at that resolution.                       *)
(*                                                                         *)
(* Library calls.  scipy.signal.welch, scipy.signal.hilbert, np.unwrap,    *)
(* np.diff, np.std and np.mean are not code of the repository.  A          *)
(* telemetry sample is represented by the length of its coherence signal   *)
(* and by the values those calls return on it: the Welch power of every    *)
(* bin, the standard deviation of the phase increments, the Welch power    *)
(* of every rhythm segment at the target bin, and the mean of every        *)
(* auxiliary channel.  Everything the repository computes from them is     *)
(* computed here as the code computes it.  A Python exception is the       *)
(* result [status |-> "raised", error |-> <class name>].                   *)
(***************************************************************************)
EXTENDS Integers, Sequences, FiniteSets

VARIABLES
    sampling_rate,   \* self.sampling_rate, mHz
    telemetry,       \* the telemetry dict the caller holds
    np_random,       \* state of the process-global numpy generator np.random
    pulse_analysis,  \* outcome of the latest detect_quantum_pulse call
    prev_analysis,   \* outcome of the detect_quantum_pulse call before it
    sync_call,       \* latest apply_synchronization call: arguments and outcome
    prev_sync_call,  \* the apply_synchronization call before it
    calls            \* number of calls made so far

vars == <<sampling_rate, telemetry, np_random, pulse_analysis, prev_analysis,
          sync_call, prev_sync_call, calls>>

---------------------------------------------------------------------------
(* Bounds of the model *)

\* calls of detect_quantum_pulse / apply_synchronization in one behaviour
MaxCalls == 3

\* number of states of the modelled random generator
RngStates == 3

---------------------------------------------------------------------------
(* Program constants *)

target_frequency == 670        \* self.target_frequency = 0.67
n_segments == 10               \* n_segments = 10
NpersegCap == 1024             \* min(1024, len(signal_data)//4)
freq_window == 100             \* freq_window = 0.1
NoiseBandLow == 200            \* freqs > 0.2
NoiseBandHigh == 20000         \* freqs < 20
NoiseFloor == 1                \* else 1e-10
FreqTolerance == 10            \* < 0.01 (detection), / 0.01 (freq_health)
SnrThreshold == 2000           \* snr > 2.0
PercentileRank == 90           \* np.percentile(power, 90)
PhaseThreshold == 700          \* phase_coherence > 0.7
SnrReference == 3000           \* snr / 3.0
ErrorReference == 20           \* / 0.02
FidelityFloor == 985           \* - 0.985
FidelitySpan == 10             \* / 0.01
MaxReduction == 180000         \* np.clip(..., 0.0, 0.18)

One == 1000                    \* 1.0 in thousandths

---------------------------------------------------------------------------
(* Arithmetic helpers *)

Abs(x) == IF x < 0 THEN -x ELSE x

Min(a, b) == IF a <= b THEN a ELSE b

Max(a, b) == IF a >= b THEN a ELSE b

\* np.clip(x, lo, hi)
Clip(x, lo, hi) == Min(Max(x, lo), hi)

RECURSIVE SumSeq(_)
SumSeq(s) == IF s = <<>> THEN 0 ELSE Head(s) + SumSeq(Tail(s))

RECURSIVE SumSquares(_)
SumSquares(s) == IF s = <<>> THEN 0 ELSE Head(s) * Head(s) + SumSquares(Tail(s))

\* floor of the square root of x, by bisection of lo..hi with lo^2 <= x < hi^2
RECURSIVE IsqrtIn(_, _, _)
IsqrtIn(x, lo, hi) ==
    IF hi - lo <= 1 THEN lo
    ELSE LET mid == (lo + hi) \div 2
         IN  IF mid * mid <= x THEN IsqrtIn(x, mid, hi) ELSE IsqrtIn(x, lo, mid)

Isqrt(x) == IsqrtIn(x, 0, 46340)

\* a Python exception propagating out of a call
Raise(cls) == [status |-> "raised", error |-> cls]

\* a value returned by a call
Return(v) == [status |-> "returned", value |-> v]

\* no call made yet
NoResult == [status |-> "none"]

Raised(r) == r.status = "raised"

Returned(r) == r.status = "returned"

---------------------------------------------------------------------------
(* detect_quantum_pulse: spectrum, peak and signal-to-noise ratio *)

\* nperseg=min(1024, len(signal_data)//4)
Nperseg(n_samples) == Min(NpersegCap, n_samples \div 4)

\* number of bins of the one-sided Welch spectrum of segments of nperseg
\* samples; none when welch has no segment to transform
WelchBins(nperseg) == IF nperseg < 1 THEN 0 ELSE nperseg \div 2 + 1

\* freqs returned by signal.welch: bin k (from 0) lies at k * fs / nperseg
WelchFreqs(fs, nperseg) ==
    [k \in 1..WelchBins(nperseg) |-> ((k - 1) * fs) \div nperseg]

\* np.argmin(np.abs(freqs - self.target_frequency)): the first bin among
\* those nearest to the target
ArgminTarget(freqs) ==
    CHOOSE i \in DOMAIN freqs :
        \A j \in DOMAIN freqs :
            /\ Abs(freqs[i] - target_frequency) <= Abs(freqs[j] - target_frequency)
            /\ (Abs(freqs[j] - target_frequency) = Abs(freqs[i] - target_frequency)
                    => i <= j)

\* mask = (freqs > pulse_freq - freq_window) & (freqs < pulse_freq + freq_window)
SignalMask(freqs, pulse_freq) ==
    {k \in DOMAIN freqs : freqs[k] > pulse_freq - freq_window
                          /\ freqs[k] < pulse_freq + freq_window}

\* noise_mask = (freqs > 0.2) & (freqs < 20) & ~mask
NoiseMask(freqs, mask) ==
    {k \in DOMAIN freqs : freqs[k] > NoiseBandLow /\ freqs[k] < NoiseBandHigh
                          /\ k \notin mask}

RECURSIVE SumOver(_, _)
SumOver(power, bins) ==
    IF bins = {} THEN 0
    ELSE LET k == CHOOSE x \in bins : TRUE
         IN  power[k] + SumOver(power, bins \ {k})

\* snr = signal_power / noise_power, where signal_power = np.mean(power[mask])
\* and noise_power = np.mean(power[noise_mask]) if np.any(noise_mask) else 1e-10
SignalToNoise(power, mask, noise_mask) ==
    IF noise_mask = {}
    THEN (SumOver(power, mask) * One) \div (Cardinality(mask) * NoiseFloor)
    ELSE (SumOver(power, mask) * Cardinality(noise_mask) * One)
             \div (SumOver(power, noise_mask) * Cardinality(mask))

\* the i-th smallest (from 1) element of a sequence
SortedAt(power, i) ==
    CHOOSE v \in {power[k] : k \in DOMAIN power} :
        /\ Cardinality({k \in DOMAIN power : power[k] < v}) < i
        /\ Cardinality({k \in DOMAIN power : power[k] <= v}) >= i

\* np.percentile(power, q), linear interpolation between the two order
\* statistics around position q/100 * (len - 1)
Percentile(power, q) ==
    LET n    == Len(power)
        pos  == q * (n - 1)             \* position, in hundredths
        lo   == pos \div 100
        frac == pos % 100
        a    == SortedAt(power, lo + 1)
        b    == SortedAt(power, Min(lo + 2, n))
    IN  a + (frac * (b - a)) \div 100

\* phase_coherence = 1.0 / (1.0 + phase_std)
CalculatePhaseCoherence(phase_std) == (One * One) \div (One + phase_std)

---------------------------------------------------------------------------
(* _analyze_rhythm_stability *)

\* the segments the loop collects a power for: segment i (from 0) runs from
\* i * segment_length to (i + 1) * segment_length, and the loop breaks at the
\* first segment that would end beyond the signal
CollectedSegments(n_samples) ==
    LET segment_length == n_samples \div n_segments
    IN  {i \in 1..n_segments :
            \A j \in 1..i : j * segment_length <= n_samples}

\* 1.0 - (np.std(stabilities) / np.mean(stabilities)) of the collected powers:
\* std / mean = sqrt(n * sum(x^2) - sum(x)^2) / sum(x)
StabilityOf(stabilities) ==
    LET n   == Len(stabilities)
        sm  == SumSeq(stabilities)
        dev == n * SumSquares(stabilities) - sm * sm
    IN  One - (Isqrt(dev * 10000) * 10) \div sm

\* _analyze_rhythm_stability(signal_data, t): signal.welch of an empty segment
\* returns empty arrays, and np.argmin of an empty array raises ValueError
AnalyzeRhythmStability(n_samples, segment_power) ==
    LET segment_length == n_samples \div n_segments
        collected      == CollectedSegments(n_samples)
        stabilities    == [i \in 1..Cardinality(collected) |-> segment_power[i]]
    IN  IF collected # {} /\ segment_length = 0
        THEN Raise("ValueError")
        ELSE IF Len(stabilities) > 1
             THEN Return(Clip(StabilityOf(stabilities), 0, One))
             ELSE Return(500)

---------------------------------------------------------------------------
(* _assess_system_health *)

\* weights = [0.2, 0.2, 0.2, 0.1, 0.15, 0.15]
weights == <<200, 200, 200, 100, 150, 150>>

\* np.average(metrics, weights=weights)
Average(metrics, w) ==
    SumSeq([i \in DOMAIN metrics |-> metrics[i] * w[i]]) \div SumSeq(w)

\* min(snr / 3.0, 1.0)
SnrHealth(snr) ==
    IF snr >= SnrReference THEN One ELSE (snr * One) \div SnrReference

\* the if/elif chain from health_score to the status label
HealthStatus(health_score) ==
    IF health_score > 800 THEN "EXCELLENT"
    ELSE IF health_score > 600 THEN "GOOD"
    ELSE IF health_score > 400 THEN "FAIR"
    ELSE IF health_score > 200 THEN "POOR"
    ELSE "CRITICAL"

\* HealthMetrics with the fidelity floor 0.985 not subtracted
HealthMetrics_NoFidelityFloor(pulse_freq, snr, phase_coherence, rhythm_stability, tel) ==
    << One - Min((Abs(pulse_freq - 670) * One) \div FreqTolerance, One),
       SnrHealth(snr),
       phase_coherence,
       rhythm_stability,
       One - (tel.error_rates * One) \div ErrorReference,
       (tel.gate_fidelities * One) \div FidelitySpan >>

\* the six health metrics, in the order of the metrics list
HealthMetrics(pulse_freq, snr, phase_coherence, rhythm_stability, tel) ==
    << One - Min((Abs(pulse_freq - 670) * One) \div FreqTolerance, One),
       SnrHealth(snr),
       phase_coherence,
       rhythm_stability,
       One - (tel.error_rates * One) \div ErrorReference,
       ((tel.gate_fidelities - FidelityFloor) * One) \div FidelitySpan >>

\* _assess_system_health(pulse_freq, snr, phase_coherence, rhythm_stability,
\* telemetry): telemetry['error_rates'] and telemetry['gate_fidelities'] raise
\* KeyError when the dict has no such key
AssessSystemHealth(pulse_freq, snr, phase_coherence, rhythm_stability, tel) ==
    IF "error_rates" \notin tel.keys THEN Raise("KeyError")
    ELSE IF "gate_fidelities" \notin tel.keys THEN Raise("KeyError")
    ELSE LET health_score ==
                 Average(HealthMetrics(pulse_freq, snr, phase_coherence,
                                       rhythm_stability, tel), weights)
         IN  Return([health_score |-> health_score,
                     status |-> HealthStatus(health_score)])

---------------------------------------------------------------------------
(* np.random: the generator shared by the whole process *)

\* np.random.uniform(low, high), in thousandths: the value the generator
\* yields in state rng, in the half-open interval [low, high)
Uniform(low, high, rng) == low + ((high - low) * rng) \div RngStates

\* the state of the generator after one draw
Advance(rng) == (rng + 1) % RngStates

---------------------------------------------------------------------------
(* _estimate_error_reduction *)

\* ClipReduction with the np.clip left out
ClipReduction_Unclipped(total) == total

\* total_reduction + variation, clipped: np.clip(..., 0.0, 0.18)
ClipReduction(total) == Clip(total, 0, MaxReduction)

\* TotalReduction with the phase_factor left out
TotalReduction_NoPhaseFactor(snr, phase_coherence, health_score) ==
    SnrHealth(snr) * 120 + health_score * 50

\* snr_factor + phase_factor + health_factor, in millionths
TotalReduction(snr, phase_coherence, health_score) ==
    SnrHealth(snr) * 120 + phase_coherence * 60 + health_score * 50

\* EstimateErrorReduction without the early return for an undetected pulse
EstimateErrorReduction_NoEarlyReturn(pulse_detected, snr, phase_coherence, health_score, rng) ==
    [value |-> ClipReduction(TotalReduction(snr, phase_coherence, health_score)
                             + Uniform(-20, 20, rng) * 1000),
     np_random |-> Advance(rng)]

\* _estimate_error_reduction(pulse_detected, snr, phase_coherence,
\* health_score): the value returned and the generator state left behind;
\* variation = np.random.uniform(-0.02, 0.02) is drawn only past the early return
EstimateErrorReduction(pulse_detected, snr, phase_coherence, health_score, rng) ==
    IF ~pulse_detected
    THEN [value |-> 0, np_random |-> rng]
    ELSE LET variation == Uniform(-20, 20, rng) * 1000
         IN  [value |-> ClipReduction(
                            TotalReduction(snr, phase_coherence, health_score)
                            + variation),
              np_random |-> Advance(rng)]

---------------------------------------------------------------------------
(* _generate_interpretation *)

\* f"{error_reduction*100:.1f}": the percentage rounded to tenths of a percent
FormatPercent(error_reduction) == (error_reduction + 500) \div 1000

HealthSentence(health_status) ==
    CASE health_status = "EXCELLENT" ->
             "System shows excellent coherence with strong, stable quantum pulse."
      [] health_status = "GOOD" ->
             "System maintains good coherence with detectable quantum rhythm."
      [] health_status = "FAIR" ->
             "System coherence is fair; pulse detected but with some instability."
      [] health_status = "POOR" ->
             "System coherence is poor; pulse weak or irregular."
      [] OTHER ->
             "System coherence is critically low; immediate intervention recommended."

\* the error-reduction sentence: its wording by tier, and the number printed
ReductionSentence(error_reduction) ==
    [text |-> IF error_reduction > 150000
                  THEN "Excellent synchronization potential"
              ELSE IF error_reduction > 100000
                  THEN "Good synchronization potential"
              ELSE IF error_reduction > 50000
                  THEN "Moderate synchronization potential"
              ELSE "Limited synchronization benefit",
     percent |-> FormatPercent(error_reduction)]

\* _generate_interpretation(pulse_detected, health_status, error_reduction):
\* the sentences joined into the string
GenerateInterpretation(pulse_detected, health_status, error_reduction) ==
    IF ~pulse_detected
    THEN << [text |-> "Quantum pulse not detected. System may be in decoherent state or require calibration.",
             percent |-> 0] >>
    ELSE << [text |-> HealthSentence(health_status), percent |-> 0],
            ReductionSentence(error_reduction),
            [text |-> "IMPORTANT: This is QUANTUM SYSTEM HRV - the machine's intrinsic rhythm, not human biological signal.",
             percent |-> 0] >>

---------------------------------------------------------------------------
(* detect_quantum_pulse *)

\* PulseDetected without the test of the peak against the percentile
PulseDetected_NoPeakTest(pulse_freq, snr, pulse_power, percentile, phase_coherence) ==
    /\ Abs(pulse_freq - target_frequency) < FreqTolerance
    /\ snr > SnrThreshold
    /\ phase_coherence > PhaseThreshold

\* pulse_detected = (abs(pulse_freq - self.target_frequency) < 0.01 and
\*                   snr > 2.0 and pulse_power > np.percentile(power, 90) and
\*                   phase_coherence > 0.7)
PulseDetected(pulse_freq, snr, pulse_power, percentile, phase_coherence) ==
    /\ Abs(pulse_freq - target_frequency) < FreqTolerance
    /\ snr > SnrThreshold
    /\ pulse_power > percentile
    /\ phase_coherence > PhaseThreshold

\* the dict detect_quantum_pulse returns
PulseReport(pulse_detected, pulse_freq, pulse_power, snr, phase_coherence, rhythm_stability, health, error_reduction) ==
    [quantum_pulse_detected    |-> pulse_detected,
     pulse_frequency           |-> pulse_freq,
     target_frequency          |-> target_frequency,
     frequency_deviation       |-> Abs(pulse_freq - target_frequency),
     pulse_strength            |-> pulse_power,
     signal_to_noise_ratio     |-> snr,
     phase_coherence           |-> phase_coherence,
     rhythm_stability          |-> rhythm_stability,
     system_health_score       |-> health.health_score,
     system_health_status      |-> health.status,
     estimated_error_reduction |-> error_reduction,
     interpretation            |-> GenerateInterpretation(pulse_detected,
                                       health.status, error_reduction)]

\* detect_quantum_pulse(telemetry), run with the generator in state rng: its
\* outcome and the generator state it leaves.  signal.welch raises ValueError
\* for nperseg = 0, and of an empty signal it returns empty arrays, of which
\* np.argmin raises ValueError.
DetectQuantumPulse(fs, tel, rng) ==
    LET nperseg         == Nperseg(tel.n_samples)
        freqs           == WelchFreqs(fs, nperseg)
        power           == tel.power
        target_idx      == ArgminTarget(freqs)
        pulse_freq      == freqs[target_idx]
        pulse_power     == power[target_idx]
        mask            == SignalMask(freqs, pulse_freq)
        noise_mask      == NoiseMask(freqs, mask)
        snr             == SignalToNoise(power, mask, noise_mask)
        phase_coherence == CalculatePhaseCoherence(tel.phase_std)
        rhythm          == AnalyzeRhythmStability(tel.n_samples, tel.segment_power)
        pulse_detected  == PulseDetected(pulse_freq, snr, pulse_power,
                                         Percentile(power, PercentileRank),
                                         phase_coherence)
        health          == AssessSystemHealth(pulse_freq, snr, phase_coherence,
                                              rhythm.value, tel)
        reduction       == EstimateErrorReduction(pulse_detected, snr,
                               phase_coherence, health.value.health_score, rng)
    IN  IF nperseg < 1 THEN [result |-> Raise("ValueError"), np_random |-> rng]
        ELSE IF Raised(rhythm) THEN [result |-> rhythm, np_random |-> rng]
        ELSE IF Raised(health) THEN [result |-> health, np_random |-> rng]
        ELSE [result |-> Return(PulseReport(pulse_detected, pulse_freq,
                             pulse_power, snr, phase_coherence, rhythm.value,
                             health.value, reduction.value)),
              np_random |-> reduction.np_random]

---------------------------------------------------------------------------
(* apply_synchronization *)

\* the dict returned when the pulse was not detected
NotApplied ==
    [synchronization_applied |-> FALSE,
     error_reduction         |-> 0,
     message |-> "Cannot apply synchronization: quantum pulse not detected"]

\* the dict returned when the pulse was detected; base_error in thousandths
Applied(pa, base_error) ==
    LET reduction == pa.estimated_error_reduction
    IN  [synchronization_applied |-> TRUE,
         original_error_rate     |-> base_error * 1000,
         synchronized_error_rate |-> (base_error * (1000000 - reduction)) \div 1000,
         error_reduction         |-> reduction,
         relative_improvement    |-> reduction * 100,
         timing_adjustments      |->
             [gate_operations_aligned      |-> TRUE,
              measurement_timing_optimized |-> TRUE,
              idle_periods_synchronized    |-> pa.phase_coherence > PhaseThreshold,
              pulse_phase_tracking         |-> TRUE],
         pulse_parameters_used   |->
             [frequency       |-> pa.pulse_frequency,
              strength        |-> pa.pulse_strength,
              phase_coherence |-> pa.phase_coherence],
         system_health_impact    |-> pa.system_health_status,
         interpretation          |->
             [text |-> "Synchronization applied. System operating in harmony with intrinsic quantum rhythm.",
              percent |-> FormatPercent(reduction)]]

\* ApplySynchronization without the early return for an undetected pulse
ApplySynchronization_NoGuard(circuit_data, pa, rng) ==
    [result |-> Return(Applied(pa, Uniform(80, 120, rng))),
     np_random |-> Advance(rng)]

\* apply_synchronization(circuit_data, pulse_analysis), run with the generator
\* in state rng: circuit_data is never read, and
\* base_error = np.random.uniform(0.08, 0.12) is drawn past the early return
ApplySynchronization(circuit_data, pa, rng) ==
    IF ~pa.quantum_pulse_detected
    THEN [result |-> Return(NotApplied), np_random |-> rng]
    ELSE [result |-> Return(Applied(pa, Uniform(80, 120, rng))),
          np_random |-> Advance(rng)]

---------------------------------------------------------------------------
(* The inputs *)

\* sampling rates of the detector, mHz: one whose bins hit 0.67 Hz, one whose
\* nearest bin is 5 mHz off, and one whose bins all lie far below 0.67 Hz
SamplingRates == {1340, 1350, 300}

\* lengths of the coherence signal
SignalLengths == {3, 9, 10, 16, 24}

\* Welch power of one bin
PowerLevels == {2000, 3000, 7000}

\* Welch spectra of a given number of bins: one bin at one level, the others
\* at another
Spectra(bins) ==
    IF bins = 0 THEN {<< >>}
    ELSE {[k \in 1..bins |-> IF k = j THEN a ELSE b] :
              j \in 1..bins, a \in PowerLevels, b \in PowerLevels}

\* standard deviation of the phase increments, thousandths of a radian
PhaseStds == {0, 400, 1000}

\* power at the target bin of the ten rhythm segments: steady and bursty
SegmentProfiles ==
    {[i \in 1..n_segments |-> 4],
     [i \in 1..n_segments |-> IF i = n_segments THEN 31 ELSE 1]}

\* mean of the error_rates channel, thousandths
ErrorRateMeans == {0, 20, 73, 1000}

\* mean of the gate_fidelities channel, thousandths
FidelityMeans == {0, 985, 995}

\* values the caller passes as circuit_data, read as a baseline error rate in
\* thousandths
CircuitData == {100, 1500}

Telemetries ==
    {[n_samples       |-> n,
      power           |-> p,
      phase_std       |-> ps,
      segment_power   |-> sp,
      keys            |-> ks,
      error_rates     |-> e,
      gate_fidelities |-> g] :
        n \in SignalLengths, p \in UNION {Spectra(b) : b \in 0..4},
        ps \in PhaseStds, sp \in SegmentProfiles \cup {<< >>},
        ks \in SUBSET {"error_rates", "gate_fidelities"},
        e \in ErrorRateMeans \cup {0}, g \in FidelityMeans \cup {0}}

\* a telemetry dict as the library calls see it: as many Welch bins as the
\* signal length gives, ten rhythm segments unless they are empty, and a mean
\* for every channel the dict holds
WellFormed(tel) ==
    /\ Len(tel.power) = WelchBins(Nperseg(tel.n_samples))
    /\ (tel.segment_power = << >>) = (tel.n_samples \div n_segments = 0)
    /\ IF "error_rates" \in tel.keys
       THEN tel.error_rates \in ErrorRateMeans ELSE tel.error_rates = 0
    /\ IF "gate_fidelities" \in tel.keys
       THEN tel.gate_fidelities \in FidelityMeans ELSE tel.gate_fidelities = 0

NoCall == [circuit_data |-> 0, pulse_analysis |-> NoResult, result |-> NoResult]

---------------------------------------------------------------------------
(* The state machine *)

Init ==
    /\ sampling_rate \in SamplingRates
    /\ telemetry \in {tel \in Telemetries : WellFormed(tel)}
    /\ np_random \in 0..(RngStates - 1)
    /\ pulse_analysis = NoResult
    /\ prev_analysis = NoResult
    /\ sync_call = NoCall
    /\ prev_sync_call = NoCall
    /\ calls = 0

\* the caller runs detector.detect_quantum_pulse(telemetry)
Detect ==
    /\ calls < MaxCalls
    /\ LET r == DetectQuantumPulse(sampling_rate, telemetry, np_random)
       IN  /\ pulse_analysis' = r.result
           /\ np_random' = r.np_random
    /\ prev_analysis' = pulse_analysis
    /\ calls' = calls + 1
    /\ UNCHANGED <<sampling_rate, telemetry, sync_call, prev_sync_call>>

\* the caller runs detector.apply_synchronization(circuit_data, pulse_analysis)
\* on the report it got last
Synchronize(circuit_data) ==
    /\ calls < MaxCalls
    /\ Returned(pulse_analysis)
    /\ LET r == ApplySynchronization(circuit_data, pulse_analysis.value, np_random)
       IN  /\ sync_call' = [circuit_data   |-> circuit_data,
                            pulse_analysis |-> pulse_analysis,
                            result         |-> r.result]
           /\ np_random' = r.np_random
    /\ prev_sync_call' = sync_call
    /\ calls' = calls + 1
    /\ UNCHANGED <<sampling_rate, telemetry, pulse_analysis, prev_analysis>>

Next ==
    \/ Detect
    \/ \E circuit_data \in CircuitData : Synchronize(circuit_data)

Spec == Init /\ [][Next]_vars

---------------------------------------------------------------------------
(* Properties *)

\* the report of the latest detect_quantum_pulse call, when it returned one
Report == pulse_analysis.value

\* C1: whenever detect_quantum_pulse returns a report whose
\* quantum_pulse_detected is false, its estimated_error_reduction is exactly 0,
\* whatever the signal-to-noise ratio, phase coherence and health score are.
C1_UndetectedHasNoReduction ==
    (Returned(pulse_analysis) /\ ~Report.quantum_pulse_detected)
        => Report.estimated_error_reduction = 0

\* a report that is not detected although its SNR, phase coherence and health
\* score are all strong
C1_Witness ==
    /\ Returned(pulse_analysis)
    /\ ~Report.quantum_pulse_detected
    /\ Report.signal_to_noise_ratio > 2000
    /\ Report.phase_coherence > 700
    /\ Report.system_health_score > 600
    /\ Report.estimated_error_reduction = 0

SyncOnUndetected ==
    /\ Returned(sync_call.pulse_analysis)
    /\ ~sync_call.pulse_analysis.value.quantum_pulse_detected

\* C3: apply_synchronization on a report whose quantum_pulse_detected is false
\* returns, for any value of its other argument, the dict of exactly three
\* keys: synchronization_applied false, error_reduction 0 and the fixed
\* message; it holds no original and no synchronized error rate.
C3_UndetectedNotApplied ==
    SyncOnUndetected
        => /\ Returned(sync_call.result)
           /\ DOMAIN sync_call.result.value
                  = {"synchronization_applied", "error_reduction", "message"}
           /\ sync_call.result.value.synchronization_applied = FALSE
           /\ sync_call.result.value.error_reduction = 0
           /\ sync_call.result.value.message
                  = "Cannot apply synchronization: quantum pulse not detected"

\* two calls on the same undetected report with different other arguments,
\* the second returning the three-key dict
C3_Witness ==
    /\ SyncOnUndetected
    /\ prev_sync_call.pulse_analysis = sync_call.pulse_analysis
    /\ prev_sync_call.circuit_data # sync_call.circuit_data
    /\ Returned(sync_call.result)
    /\ ~sync_call.result.value.synchronization_applied

\* frequencies, ratios, powers and coherences to vary one gating input over
C4_Frequencies == {650, 660, 661, 670, 679, 680, 690}

C4_Ratios == {0, 1999, 2000, 2001, 3000}

C4_Coherences == {0, 699, 700, 701, 1000}

\* C4: quantum_pulse_detected is true exactly when all four conditions hold:
\* |pulse_frequency - 0.67| < 0.01, signal_to_noise_ratio > 2.0, pulse_strength
\* above the 90th percentile of the spectrum powers, and phase_coherence > 0.7.
\* And with three of the inputs of the report held fixed, any value of the
\* fourth that fails its condition gives not detected.
C4_DetectedIffAllFour ==
    Returned(pulse_analysis) =>
        LET p90 == Percentile(telemetry.power, 90)
            f   == Report.pulse_frequency
            snr == Report.signal_to_noise_ratio
            pw  == Report.pulse_strength
            pc  == Report.phase_coherence
        IN  /\ Report.quantum_pulse_detected
                = (/\ f - 670 < 10 /\ 670 - f < 10
                   /\ snr > 2000
                   /\ pw > p90
                   /\ pc > 700)
            /\ \A f2 \in C4_Frequencies :
                   (f2 <= 660 \/ f2 >= 680)
                       => ~PulseDetected(f2, snr, pw, p90, pc)
            /\ \A snr2 \in C4_Ratios :
                   snr2 <= 2000 => ~PulseDetected(f, snr2, pw, p90, pc)
            /\ \A pw2 \in PowerLevels :
                   pw2 <= p90 => ~PulseDetected(f, snr, pw2, p90, pc)
            /\ \A pc2 \in C4_Coherences :
                   pc2 <= 700 => ~PulseDetected(f, snr, pw, p90, pc2)

\* a detected report: all four conditions hold
C4_Witness ==
    /\ Returned(pulse_analysis)
    /\ Report.quantum_pulse_detected
    /\ Report.frequency_deviation < 10
    /\ Report.signal_to_noise_ratio > 2000
    /\ Report.pulse_strength > Percentile(telemetry.power, 90)
    /\ Report.phase_coherence > 700

\* both auxiliary channels are present
HasAuxiliary == {"error_rates", "gate_fidelities"} \subseteq telemetry.keys

\* C5 as stated: with mean error rate and mean fidelity anywhere in [0, 1],
\* the health score lies in [0, 1].
C5_HealthInRange_Original ==
    (/\ Returned(pulse_analysis)
     /\ HasAuxiliary
     /\ telemetry.error_rates >= 0 /\ telemetry.error_rates <= 1000
     /\ telemetry.gate_fidelities >= 0 /\ telemetry.gate_fidelities <= 1000)
        => /\ Report.system_health_score >= 0
           /\ Report.system_health_score <= 1000

\* C5 as amended: when error_health = 1 - mean(error_rates) / 0.02 and
\* fidelity_health = (mean(gate_fidelities) - 0.985) / 0.01 both lie in [0, 1],
\* the weighted sum of the six metrics is a health score in [0, 1].
C5_HealthInRange ==
    LET error_health    == 1000 - (telemetry.error_rates * 1000) \div 20
        fidelity_health == ((telemetry.gate_fidelities - 985) * 1000) \div 10
    IN  (/\ Returned(pulse_analysis)
         /\ HasAuxiliary
         /\ error_health >= 0 /\ error_health <= 1000
         /\ fidelity_health >= 0 /\ fidelity_health <= 1000)
            => /\ Report.system_health_score >= 0
               /\ Report.system_health_score <= 1000

\* a report whose six metrics are all 1.0: the health score is exactly 1.0
C5_Witness ==
    /\ Returned(pulse_analysis)
    /\ HasAuxiliary
    /\ telemetry.error_rates = 0
    /\ telemetry.gate_fidelities = 995
    /\ Report.system_health_score = 1000

\* the latest apply_synchronization call was made on a detected report
SyncOnDetected ==
    /\ Returned(sync_call.pulse_analysis)
    /\ sync_call.pulse_analysis.value.quantum_pulse_detected

\* C6 as stated: on a detected report and a baseline b in [0, 1] passed by the
\* caller, apply_synchronization returns original_error_rate = b,
\* synchronized_error_rate = b * (1 - estimated_error_reduction) and
\* error_reduction = estimated_error_reduction, and a second call with the same
\* report and the same baseline returns the same dict.
C6_OutcomeFromBaseline ==
    (SyncOnDetected /\ sync_call.circuit_data \in 0..1000) =>
        LET b      == sync_call.circuit_data
            report == sync_call.pulse_analysis.value
            out    == sync_call.result.value
        IN  /\ Returned(sync_call.result)
            /\ out.synchronization_applied
            /\ out.original_error_rate = b * 1000
            /\ out.synchronized_error_rate
                   = (b * (1000000 - report.estimated_error_reduction)) \div 1000
            /\ out.error_reduction = report.estimated_error_reduction
            /\ (/\ prev_sync_call.pulse_analysis = sync_call.pulse_analysis
                /\ prev_sync_call.circuit_data = sync_call.circuit_data)
                   => prev_sync_call.result = sync_call.result

\* C7 as stated, on a detected report (for an undetected one C3 fixes the
\* outcome): apply_synchronization called with a baseline outside [0, 1] fails
\* with InvalidArgumentError and returns nothing.
C7_BaselineOutOfRangeFails ==
    (/\ SyncOnDetected
     /\ sync_call.result.status # "none"
     /\ sync_call.circuit_data \notin 0..1000)
        => /\ Raised(sync_call.result)
           /\ sync_call.result.error = "InvalidArgumentError"

\* the twelve keys of a complete report
ReportKeys ==
    {"quantum_pulse_detected", "pulse_frequency", "target_frequency",
     "frequency_deviation", "pulse_strength", "signal_to_noise_ratio",
     "phase_coherence", "rhythm_stability", "system_health_score",
     "system_health_status", "estimated_error_reduction", "interpretation"}

\* C8 as stated: detect_quantum_pulse either fails with InsufficientDataError
\* or returns a complete report; it fails with no other error.
C8_InsufficientDataOrReport ==
    pulse_analysis.status # "none"
        => \/ /\ Raised(pulse_analysis)
              /\ pulse_analysis.error = "InsufficientDataError"
           \/ /\ Returned(pulse_analysis)
              /\ DOMAIN Report = ReportKeys

\* the health score with 0.5 in the place of the metric of an absent channel
C9_NeutralHealth ==
    LET m == HealthMetrics(Report.pulse_frequency, Report.signal_to_noise_ratio,
                           Report.phase_coherence, Report.rhythm_stability,
                           telemetry)
    IN  Average(<< m[1], m[2], m[3], m[4],
                   IF "error_rates" \in telemetry.keys THEN m[5] ELSE 500,
                   IF "gate_fidelities" \in telemetry.keys THEN m[6] ELSE 500 >>,
                weights)

\* C9 as stated: on a telemetry dict without the error_rates or without the
\* gate_fidelities channel, whose signal is long enough for every stage,
\* detect_quantum_pulse returns a report, with 0.5 as the missing health metric.
C9_AbsentChannelNeutral ==
    (/\ pulse_analysis.status # "none"
     /\ ~HasAuxiliary
     /\ telemetry.n_samples >= n_segments)
        => /\ Returned(pulse_analysis)
           /\ Report.system_health_score = C9_NeutralHealth

\* C10 as stated: two detect_quantum_pulse calls on the same telemetry dict
\* return reports equal in every field.
C10_SameReportTwice ==
    (Returned(prev_analysis) /\ Returned(pulse_analysis))
        => pulse_analysis = prev_analysis

\* the outcome of _analyze_rhythm_stability on the telemetry of the state
RhythmOutcome ==
    AnalyzeRhythmStability(telemetry.n_samples, telemetry.segment_power)

\* C11 as stated: wherever detect_quantum_pulse reaches the rhythm stability
\* analyzer, the analyzer does not fail; on a signal of fewer than
\* n_segments samples it returns the neutral 0.5, and on a signal that gives
\* the ten segments it returns clip(1 - std/mean of the segment powers, 0, 1).
C11_ShortSignalNeutral ==
    (pulse_analysis.status # "none" /\ Nperseg(telemetry.n_samples) >= 1)
        => /\ Returned(RhythmOutcome)
           /\ telemetry.n_samples < n_segments => RhythmOutcome.value = 500
           /\ telemetry.n_samples >= n_segments
                  => RhythmOutcome.value
                         = Clip(StabilityOf(telemetry.segment_power), 0, One)

\* the sentences of the "> 0.15" and "> 0.10" benefit tiers
C12_UpperTiers ==
    {"Excellent synchronization potential", "Good synchronization potential"}

\* the latest detect_quantum_pulse call returned a report with detected true
C12_Detected == Returned(pulse_analysis) /\ Report.quantum_pulse_detected

\* C12 as stated: a detected report with a health score >= 0 has a benefit
\* estimate above 0.10, and every detected report, whatever its health score,
\* carries the sentence of the "> 0.15" or of the "> 0.10" tier.
C12_DetectedInUpperTiers_Original ==
    C12_Detected
        => /\ Report.system_health_score >= 0
                  => Report.estimated_error_reduction > 100000
           /\ Report.interpretation[2].text \in C12_UpperTiers

\* C12: a detected report with a health score >= 0 has a benefit estimate
\* above 0.10 and carries the sentence of the "> 0.15" or of the "> 0.10"
\* tier, never that of the "> 0.05" or of the last tier.
C12_DetectedInUpperTiers ==
    (C12_Detected /\ Report.system_health_score >= 0)
        => /\ Report.estimated_error_reduction > 100000
           /\ Report.interpretation[2].text \in C12_UpperTiers

\* a detected report with a health score >= 0 and below 0.1 whose benefit
\* estimate is in the "> 0.10" tier, below 0.15
C12_Witness ==
    /\ C12_Detected
    /\ Report.system_health_score >= 0
    /\ Report.system_health_score < 100
    /\ Report.estimated_error_reduction <= 150000
    /\ Report.interpretation[2].text = "Good synchronization potential"

============================================================================
